---- MODULE Spec2Model ----
(***************************************************************************)
(* cactus: purge gitignored build artifacts and caches (src/src/main.rs).  *)
(*                                                                         *)
(* The filesystem is a finite tree of entries.  Entry 0 is the directory   *)
(* the walk starts from; entry n > 0 hangs under entry (n-1) \div 2, and   *)
(* read_dir yields a directory's entries in entry-number order, which is   *)
(* unrelated to the order of their names.  A file name is the sequence of  *)
(* its bytes, written one character per element; "xFF" is the byte 0xFF,   *)
(* which is not valid UTF-8, and "uFFFD" is U+FFFD REPLACEMENT CHARACTER.  *)
(* A path is identified with the entry it names.                           *)
(***************************************************************************)
EXTENDS Integers, Sequences, FiniteSets, TLC

\* Entries below the starting directory.
NumNodes == 14
\* Largest length of a regular file, in bytes.
MaxFileLen == 2
\* Largest -L argument.
MaxDepthArg == 2

VARIABLES
    fs,         \* the filesystem: entry -> [kind, name, readable, len, meta]
    fs0,        \* the filesystem when the program started
    oracle,     \* git2's answer to is_path_ignored: <<repo, path string>> -> outcome
    openable,   \* the directories Repository::open succeeds on
    args,       \* the parsed command line
    pc,         \* where the program is
    repos,      \* find_repos' result
    tasks,      \* per repository: the state of its scan task
    found,      \* per repository: what its scan task returned
    all_purges, \* the collected (repo, purges) list
    total_size, \* run's total_size
    total_count,\* run's total_count
    cursor,     \* <<i, j>>: the deletion loop is at all_purges[i], purge j
    freed,      \* run's freed
    errors,     \* run's errors
    log,        \* the remove_dir_all calls made so far: [path, ok]
    answer,     \* the line read at the prompt
    finished,   \* the scan tasks in the order they completed
    result,     \* what run returned: "none", "Ok" or "Err"
    outcome,    \* which return of run was taken
    exit_code,  \* the process's exit status; -1 while it runs
    stack,      \* dir_size's stack
    total,      \* dir_size's total
    ret         \* the value returned by the function a function-level run applies

vars == <<fs, fs0, oracle, openable, args, pc, repos, tasks, found, all_purges,
          total_size, total_count, cursor, freed, errors, log, answer,
          finished, result, outcome, exit_code, stack, total, ret>>

-----------------------------------------------------------------------------
(* Names *)

N_a       == <<"a">>
N_b       == <<"b">>
N_git     == <<".", "g", "i", "t">>
N_build   == <<"b", "u", "i", "l", "d">>
N_target  == <<"t", "a", "r", "g", "e", "t">>
N_tox     == <<".", "t", "o", "x">>
\* two names that are not valid UTF-8: ".\xFF" and "a\xFF"
N_dotbad  == <<".", "xFF">>
N_abad    == <<"a", "xFF">>

TARGETS ==
    { N_build,
      <<".", "g", "r", "a", "d", "l", "e">>,
      <<"b", "i", "n">>,
      <<"o", "b", "j">>,
      <<"n", "o", "d", "e", "_", "m", "o", "d", "u", "l", "e", "s">>,
      N_target,
      <<"_", "_", "p", "y", "c", "a", "c", "h", "e", "_", "_">>,
      <<".", "m", "y", "p", "y", "_", "c", "a", "c", "h", "e">>,
      <<".", "p", "y", "t", "e", "s", "t", "_", "c", "a", "c", "h", "e">>,
      <<".", "r", "u", "f", "f", "_", "c", "a", "c", "h", "e">>,
      N_tox }

Lower == <<"a", "b", "c", "d", "e", "f", "g", "h", "i", "j", "k", "l", "m",
           "n", "o", "p", "q", "r", "s", "t", "u", "v", "w", "x", "y", "z">>

\* The value of a byte of a name.
ByteOf(c) ==
    CASE c = "."   -> 46
      [] c = "/"   -> 47
      [] c = "_"   -> 95
      [] c = "xFF" -> 255
      [] OTHER     -> 96 + (CHOOSE i \in 1..Len(Lower) : Lower[i] = c)

\* OsStr::to_str: the name as a str, or None when it is not valid UTF-8.
None == <<"None">>
to_str(name) ==
    IF \E i \in 1..Len(name) : name[i] = "xFF" THEN None ELSE name

\* Option::unwrap_or
unwrap_or(opt, default) == IF opt = None THEN default ELSE opt

\* str::starts_with(char)
starts_with(s, c) == Len(s) > 0 /\ s[1] = c

\* Path::display, formatted: every invalid byte becomes U+FFFD.
display(name) ==
    [i \in 1..Len(name) |-> IF name[i] = "xFF" THEN "uFFFD" ELSE name[i]]

-----------------------------------------------------------------------------
(* The filesystem *)

Root == 0
Nodes == 1..NumNodes
Nodes0 == 0..NumNodes
Parent(n) == (n - 1) \div 2

RECURSIVE Level(_)
Level(n) == IF n = Root THEN 0 ELSE 1 + Level(Parent(n))

\* The entries on the way from a (exclusive) down to n (inclusive); n is a or below a.
RECURSIVE Chain(_, _)
Chain(a, n) == IF n = a THEN <<>> ELSE Append(Chain(a, Parent(n)), n)

RECURSIVE IsBelow(_, _)
IsBelow(n, a) == n # Root /\ (Parent(n) = a \/ IsBelow(Parent(n), a))

E(kind, name, readable, len, meta) ==
    [kind |-> kind, name |-> name, readable |-> readable, len |-> len, meta |-> meta]

Absent == E("none", <<>>, FALSE, 0, FALSE)
Dir(name) == E("dir", name, TRUE, 0, TRUE)
LockedDir(name) == E("dir", name, FALSE, 0, TRUE)
SymlinkDir(name) == E("symlink_dir", name, TRUE, 0, TRUE)
File(name, len) == E("file", name, TRUE, len, TRUE)
NoMetaFile(name, len) == E("file", name, TRUE, len, FALSE)
SymlinkFile(name, len) == E("symlink_file", name, TRUE, len, TRUE)
RootDir(readable) == E("dir", <<>>, readable, 0, TRUE)

\* Path::is_dir follows symbolic links; Path::is_symlink and DirEntry::file_type do not.
path_is_dir(f, n) == f[n].kind \in {"dir", "symlink_dir"}
path_is_symlink(f, n) == f[n].kind \in {"symlink_dir", "symlink_file"}
ft_is_dir(f, n) == f[n].kind = "dir"
ft_is_file(f, n) == f[n].kind = "file"
ft_is_symlink(f, n) == f[n].kind \in {"symlink_dir", "symlink_file"}

\* fs::read_dir(dir): Ok or Err
read_dir_ok(f, d) == path_is_dir(f, d) /\ f[d].readable

\* the entries fs::read_dir(dir) yields, in the order it yields them
entries(f, d) ==
    LET kids == <<2 * d + 1, 2 * d + 2>>
    IN  SelectSeq(kids, LAMBDA k : k \in Nodes /\ f[k].kind # "none")

\* dir.join(name).exists()
exists(f, d, name) ==
    \E k \in Nodes : Parent(k) = d /\ f[k].kind # "none" /\ f[k].name = name

-----------------------------------------------------------------------------
(* find_repos *)

\* Ord for OsStr: byte-wise lexicographic.
bytes_lt(x, y) ==
    \E i \in 1..Len(y) :
        /\ \A j \in 1..(i - 1) : j <= Len(x) /\ x[j] = y[j]
        /\ (i > Len(x) \/ (x[i] # y[i] /\ ByteOf(x[i]) < ByteOf(y[i])))

\* The components of the path of n below a.
components(f, a, n) == [i \in 1..Len(Chain(a, n)) |-> f[Chain(a, n)[i]].name]

\* Ord for Path: component-wise lexicographic.
path_lt(f, m, n) ==
    LET x == components(f, Root, m)
        y == components(f, Root, n)
    IN  \E i \in 1..Len(y) :
            /\ \A j \in 1..(i - 1) : j <= Len(x) /\ x[j] = y[j]
            /\ (i > Len(x) \/ (x[i] # y[i] /\ bytes_lt(x[i], y[i])))

\* One insertion of a stable sort: x goes after every element not greater than it.
RECURSIVE insert(_, _, _)
insert(f, s, x) ==
    IF s = <<>> THEN <<x>>
    ELSE IF path_lt(f, x, s[1]) THEN <<x>> \o s
    ELSE <<s[1]>> \o insert(f, Tail(s), x)

RECURSIVE sort_from(_, _, _)
sort_from(f, done, rest) ==
    IF rest = <<>> THEN done ELSE sort_from(f, insert(f, done, rest[1]), Tail(rest))

\* Vec<PathBuf>::sort
sort(f, s) == sort_from(f, <<>>, s)

\* a walk that stops one level early
depth_exceeded_early(depth, max_depth) == depth >= max_depth

\* line 59: depth > max_depth
depth_exceeded(depth, max_depth) == depth > max_depth

\* line 62: dir.join(".git").exists()
has_marker(f, dir) == exists(f, dir, N_git)

\* line 71: path.is_dir() && !path.is_symlink()
is_real_dir(f, path) == path_is_dir(f, path) /\ ~path_is_symlink(f, path)

RECURSIVE collect_repos(_, _, _, _, _)
RECURSIVE collect_entries(_, _, _, _, _)
collect_repos(f, dir, max_depth, depth, rs) ==
    IF depth_exceeded(depth, max_depth) THEN rs
    ELSE IF has_marker(f, dir) THEN Append(rs, dir)
    ELSE IF ~read_dir_ok(f, dir) THEN rs
    ELSE collect_entries(f, entries(f, dir), max_depth, depth, rs)

\* the for loop of collect_repos over the entries still to visit
collect_entries(f, es, max_depth, depth, rs) ==
    IF es = <<>> THEN rs
    ELSE LET path == es[1]
             rs1 == IF is_real_dir(f, path)
                    THEN collect_repos(f, path, max_depth, depth + 1, rs)
                    ELSE rs
         IN  collect_entries(f, Tail(es), max_depth, depth, rs1)

find_repos(f, base, max_depth) == sort(f, collect_repos(f, base, max_depth, 0, <<>>))

-----------------------------------------------------------------------------
(* dir_size *)

\* line 85: entry.file_type() is Ok
file_type_ok(f, n) == f[n].kind # "unknown"

\* a dir_size that follows symbolic links to directories
size_descends_links(f, n) == path_is_dir(f, n)

\* line 86: ft.is_dir() && !ft.is_symlink()
size_descends(f, n) == ft_is_dir(f, n) /\ ~ft_is_symlink(f, n)

\* line 88: ft.is_file()
size_counts(f, n) == ft_is_file(f, n)

\* line 89: entry.metadata().map(|m| m.len()).unwrap_or(0)
metadata_len(f, n) == IF f[n].meta THEN f[n].len ELSE 0

\* the for loop of dir_size over the entries still to visit; st is [stack, total]
RECURSIVE size_entries(_, _, _)
size_entries(f, es, st) ==
    IF es = <<>> THEN st
    ELSE LET e == es[1]
             st1 == IF ~file_type_ok(f, e) THEN st
                    ELSE IF size_descends(f, e)
                         THEN [st EXCEPT !.stack = Append(@, e)]
                    ELSE IF size_counts(f, e)
                         THEN [st EXCEPT !.total = @ + metadata_len(f, e)]
                    ELSE st
         IN  size_entries(f, Tail(es), st1)

\* one iteration of dir_size's while loop: pop a directory and visit its entries
size_step(f, st) ==
    LET dir == st.stack[Len(st.stack)]
        popped == [st EXCEPT !.stack = SubSeq(@, 1, Len(@) - 1)]
    IN  IF ~read_dir_ok(f, dir) THEN popped
        ELSE size_entries(f, entries(f, dir), popped)

RECURSIVE size_loop(_, _)
size_loop(f, st) == IF st.stack = <<>> THEN st.total ELSE size_loop(f, size_step(f, st))

dir_size(f, path) == size_loop(f, [stack |-> <<path>>, total |-> 0])

-----------------------------------------------------------------------------
(* find_purgeable *)

\* the path of `path` below repo_root, and how Path::display writes it
RECURSIVE join(_)
join(cs) ==
    IF cs = <<>> THEN <<>>
    ELSE IF Len(cs) = 1 THEN cs[1]
    ELSE cs[1] \o <<"/">> \o join(Tail(cs))

\* line 119: path.strip_prefix(repo_root), as its components
strip_prefix(f, path, repo_root) == components(f, repo_root, path)

\* line 120: format!("{}/", rel.display())
check_string(rel) == join([i \in 1..Len(rel) |-> display(rel[i])]) \o <<"/">>

\* the relative path itself with a trailing separator
exact_string(rel) == join(rel) \o <<"/">>

\* Repository::is_path_ignored: "Ok(true)", "Ok(false)" or "Err"
is_path_ignored(o, repo, s) ==
    IF <<repo, s>> \in DOMAIN o THEN o[<<repo, s>>] ELSE "Ok(false)"

\* line 121: .unwrap_or(false)
ignored_or_false(r) == r = "Ok(true)"

\* line 118: TARGETS.contains(&name)
is_target(name) == name \in TARGETS

\* line 131: name.starts_with('.')
is_hidden(name) == starts_with(name, ".")

\* line 112: !path.is_dir() || path.is_symlink()
scan_skips(f, path) == ~path_is_dir(f, path) \/ path_is_symlink(f, path)

\* a scan that walks into the target-named directories it did not emit
target_descends_unignored(ignored) == ~ignored

\* line 127: continue after a target name, recursing nowhere
target_descends(ignored) == FALSE

Purge(path, size) == [path |-> path, size |-> size]

\* acc is [out, visited]: out is scan_dir's out; visited records the directories
\* scan_dir was called on.
RECURSIVE scan_dir(_, _, _, _, _)
RECURSIVE scan_entries(_, _, _, _, _)
scan_dir(f, o, repo_root, dir, acc) ==
    LET acc1 == [acc EXCEPT !.visited = @ \cup {dir}]
    IN  IF ~read_dir_ok(f, dir) THEN acc1
        ELSE scan_entries(f, o, repo_root, entries(f, dir), acc1)

scan_entries(f, o, repo_root, es, acc) ==
    IF es = <<>> THEN acc
    ELSE
      LET path == es[1]
          name == unwrap_or(to_str(f[path].name), <<>>)
          check == check_string(strip_prefix(f, path, repo_root))
          ignored == ignored_or_false(is_path_ignored(o, repo_root, check))
          acc1 ==
            IF scan_skips(f, path) THEN acc
            ELSE IF is_target(name)
                 THEN LET acc2 == IF ignored
                                  THEN [acc EXCEPT !.out =
                                          Append(@, Purge(path, dir_size(f, path)))]
                                  ELSE acc
                      IN  IF target_descends(ignored)
                          THEN scan_dir(f, o, repo_root, path, acc2)
                          ELSE acc2
            ELSE IF is_hidden(name) THEN acc
            ELSE scan_dir(f, o, repo_root, path, acc)
      IN  scan_entries(f, o, repo_root, Tail(es), acc1)

\* find_purgeable together with the directories its walk was called on
scan_walk(f, o, opn, repo_path) ==
    IF repo_path \notin opn THEN [out |-> <<>>, visited |-> {}]
    ELSE scan_dir(f, o, repo_path, repo_path, [out |-> <<>>, visited |-> {}])

find_purgeable(f, o, opn, repo_path) == scan_walk(f, o, opn, repo_path).out

-----------------------------------------------------------------------------
(* The filesystems and command lines the runs start from *)

Unknown(name) == E("unknown", name, FALSE, 0, FALSE)

\* an odd entry is the first entry of its directory, an even one the second
IsFirst(n) == n % 2 = 1
SlotName(n) == IF IsFirst(n) THEN N_a ELSE N_b
IsDirLike(e) == e.kind \in {"dir", "symlink_dir"}
IsOpenDir(e) == e.kind = "dir" /\ e.readable

\* no two entries of a directory share a name
NoClash(f, n, e) ==
    e.kind = "none" \/ IsFirst(n) \/ f[n - 1].kind = "none" \/ f[n - 1].name # e.name

\* trees for dir_size: every kind of entry, names immaterial
SizeOpts(f, n) ==
    LET p == f[Parent(n)]
        nm == SlotName(n)
    IN  IF ~IsDirLike(p) THEN {Absent}
        ELSE IF ~IsOpenDir(p)
             THEN IF IsFirst(n) THEN {Absent, File(nm, 1)} ELSE {Absent}
        ELSE IF Level(n) >= 3
             THEN IF IsFirst(n) THEN {Absent, File(nm, 1), Dir(nm)}
                  ELSE {Absent, File(nm, 1)}
        ELSE IF Level(n) = 2 /\ ~IsFirst(n)
             THEN {Absent, Dir(nm), File(nm, 1), SymlinkFile(nm, 1)}
        ELSE {Absent, Dir(nm), LockedDir(nm), SymlinkDir(nm), NoMetaFile(nm, 1),
              SymlinkFile(nm, 1), Unknown(nm)}
             \cup {File(nm, l) : l \in 1..MaxFileLen}

\* trees for find_repos: markers at every depth, names in either order
DiscoverOpts(f, n) ==
    LET p == f[Parent(n)]
        all == IF ~IsDirLike(p) \/ p.name = N_git THEN {Absent}
               ELSE IF Level(n) >= 3
                    THEN IF IsFirst(n) /\ IsOpenDir(p)
                         THEN {Absent, Dir(N_git), Dir(N_a)}
                         ELSE {Absent}
               ELSE IF Level(n) = 2
                    THEN {Absent, Dir(N_a), Dir(N_b), Dir(N_git)}
               ELSE {Absent, Dir(N_a), Dir(N_b), Dir(N_git), File(N_git, 1),
                     SymlinkDir(N_a), LockedDir(N_b)}
    IN  {e \in all : NoClash(f, n, e)}

\* trees for find_purgeable: target names under every kind of ancestor
ScanOpts(f, n) ==
    LET p == f[Parent(n)]
        all == IF ~IsDirLike(p) THEN {Absent}
               ELSE IF Level(n) >= 3
                    THEN IF IsFirst(n) /\ p = Dir(N_build)
                         THEN {Absent, File(N_a, 1), Dir(N_build)}
                         ELSE {Absent}
               ELSE IF Level(n) = 2
                    THEN IF IsFirst(n)
                         THEN {Absent, Dir(N_build), Dir(N_tox), SymlinkDir(N_build),
                               File(N_build, 1)}
                         ELSE {Absent, Dir(N_target)}
               ELSE IF IsFirst(n)
                    THEN {Absent, Dir(N_a), Dir(N_git), Dir(N_dotbad), Dir(N_abad),
                          Dir(N_build), SymlinkDir(N_a), LockedDir(N_a)}
               ELSE {Absent, Dir(N_build), Dir(N_b)}
    IN  {e \in all : NoClash(f, n, e)}

\* trees for run: repositories at the base and under it, with ignored builds
RunOpts(f, n) ==
    LET p == f[Parent(n)]
        files == {Absent} \cup {File(N_a, l) : l \in 1..MaxFileLen}
    IN  IF ~IsOpenDir(p) \/ p.name = N_git THEN {Absent}
        ELSE IF p.name = N_build
             THEN IF IsFirst(n) THEN files ELSE {Absent}
        ELSE IF Level(n) = 1
             THEN IF IsFirst(n) THEN {Absent, Dir(N_b), Dir(N_git)}
                  ELSE {Absent, Dir(N_a), Dir(N_build)}
        ELSE IF Level(n) = 2
             THEN IF IsFirst(n) THEN {Absent, Dir(N_git)} ELSE {Absent, Dir(N_build)}
        ELSE {Absent}

Opts(mode, f, n) ==
    CASE mode = "size"     -> SizeOpts(f, n)
      [] mode = "discover" -> DiscoverOpts(f, n)
      [] mode = "scan"     -> ScanOpts(f, n)
      [] mode = "run"      -> RunOpts(f, n)

RootOpts(mode) ==
    IF mode \in {"size", "discover"} THEN {RootDir(TRUE), RootDir(FALSE)}
    ELSE {RootDir(TRUE)}

\* fs is a tree of the family: entry by entry, each drawn given the ones above it
RECURSIVE Build(_, _, _)
Build(mode, f, n) ==
    IF n > NumNodes THEN fs = f
    ELSE \E e \in Opts(mode, f, n) : Build(mode, f @@ (n :> e), n + 1)

Tree(mode) == \E r \in RootOpts(mode) : Build(mode, (0 :> r), 1)

\* the proper ancestors of n, the starting directory included
Ancestors(n) == {a \in Nodes0 : IsBelow(n, a)}

\* the questions put to, or that could be put to, the ignore rules of the
\* repositories in rs about the target-named directories of f
Questions(f, rs) ==
    UNION {{<<r, check_string(strip_prefix(f, t, r))>>,
            <<r, exact_string(strip_prefix(f, t, r))>>} :
           <<r, t>> \in {x \in rs \X Nodes : f[x[2]].kind = "dir"
                                              /\ f[x[2]].name \in TARGETS
                                              /\ IsBelow(x[2], x[1])}}

\* the answers the ignore rules may give: any verdict per question, or no
\* verdict at all
Oracles(f, rs) ==
    [Questions(f, rs) -> {"Ok(true)", "Ok(false)"}]
        \cup {[q \in Questions(f, rs) |-> "Err"]}

-----------------------------------------------------------------------------
(* run and main *)

NoAnswer == <<"no answer">>
ReadError == <<"read error">>

\* what may arrive on standard input at the prompt
Inputs ==
    { <<"y", "\n">>, <<" ", "y", "e", "s", " ", "\n">>, <<"n", "\n">>,
      <<"Y", "E", "S", "\n">>, <<>> }

IsSpace(c) == c \in {" ", "\n", "\t", "\r"}

\* str::trim
RECURSIVE trim_start(_)
trim_start(s) == IF s # <<>> /\ IsSpace(s[1]) THEN trim_start(Tail(s)) ELSE s
RECURSIVE trim_end(_)
trim_end(s) ==
    IF s # <<>> /\ IsSpace(s[Len(s)]) THEN trim_end(SubSeq(s, 1, Len(s) - 1)) ELSE s
trim(s) == trim_end(trim_start(s))

\* line 205: matches!(answer.trim(), "y" | "Y" | "yes")
is_yes(line) == trim(line) \in {<<"y">>, <<"Y">>, <<"y", "e", "s">>}

\* a run whose --yes overrides --dry-run
stops_for_dry_run_unless_yes(a) == a.dry_run /\ ~a.yes

\* line 194: if args.dry_run
stops_for_dry_run(a) == a.dry_run

\* line 198: if !args.yes
asks(a) == ~a.yes

\* line 167: .filter(|(_, p)| !p.is_empty())
keeps(purges) == purges # <<>>

\* a collect that returns as soon as one task has finished
scan_joined_any(ts) == \E i \in DOMAIN ts : ts[i] = "done"

\* lines 164-168: collect() returns once every task of the parallel iterator has
scan_joined(ts) == \A i \in DOMAIN ts : ts[i] = "done"

\* lines 164-168: the collected list, in the order of repos
RECURSIVE collect(_, _, _)
collect(rs, fnd, i) ==
    IF i > Len(rs) THEN <<>>
    ELSE (IF keeps(fnd[i]) THEN <<[repo |-> rs[i], purges |-> fnd[i]]>> ELSE <<>>)
         \o collect(rs, fnd, i + 1)

\* lines 178-187
RECURSIVE sum_sizes(_)
sum_sizes(ps) == IF ps = <<>> THEN 0 ELSE ps[1].size + sum_sizes(Tail(ps))
RECURSIVE report_size(_)
report_size(ap) == IF ap = <<>> THEN 0 ELSE sum_sizes(ap[1].purges) + report_size(Tail(ap))
RECURSIVE report_count(_)
report_count(ap) == IF ap = <<>> THEN 0 ELSE Len(ap[1].purges) + report_count(Tail(ap))

\* fs::remove_dir_all(path), succeeding: path and everything under it is gone
remove_dir_all(f, path) ==
    [n \in DOMAIN f |-> IF n = path \/ IsBelow(n, path) THEN Absent ELSE f[n]]

\* fs::remove_dir_all(path), failing: path stays; what is under it may be gone
remove_partly(f, path) ==
    [n \in DOMAIN f |-> IF IsBelow(n, path) THEN Absent ELSE f[n]]

\* a deletion loop that gives up at the first failure
next_cursor_abort(ap, cur, ok) ==
    IF ~ok THEN <<Len(ap) + 1, 1>>
    ELSE IF cur[2] < Len(ap[cur[1]].purges) THEN <<cur[1], cur[2] + 1>>
    ELSE <<cur[1] + 1, 1>>

\* lines 213-223: where the two for loops go after one remove_dir_all
next_cursor(ap, cur, ok) ==
    IF cur[2] < Len(ap[cur[1]].purges) THEN <<cur[1], cur[2] + 1>>
    ELSE <<cur[1] + 1, 1>>

\* line 226: if errors > 0
reports_failure(errs) == errs > 0

\* a main that prints the error and returns
exit_status_ignoring_err(res) == 0

\* lines 234-237: main exits 1 on Err and falls off its end otherwise
exit_status(res) == IF res = "Err" THEN 1 ELSE 0

Return(res, why) ==
    /\ result' = res
    /\ outcome' = why
    /\ pc' = "main"

\* lines 154-157
Canonicalize ==
    /\ pc = "canonicalize"
    /\ \E ok \in BOOLEAN :
         IF ok THEN pc' = "find_repos" /\ UNCHANGED <<result, outcome>>
         ELSE Return("Err", "cannot access")
    /\ UNCHANGED <<fs, fs0, oracle, openable, args, repos, tasks, found, all_purges,
                   total_size, total_count, cursor, freed, errors, log, answer,
                   finished, exit_code, stack, total, ret>>

\* lines 159-162, and the tasks of line 165 are created
FindRepos ==
    /\ pc = "find_repos"
    /\ repos' = find_repos(fs, Root, args.depth)
    /\ IF repos' = <<>>
       THEN Return("Err", "no repos") /\ UNCHANGED <<tasks, found>>
       ELSE /\ pc' = "scan"
            /\ tasks' = [i \in 1..Len(repos') |-> "queued"]
            /\ found' = [i \in 1..Len(repos') |-> <<>>]
            /\ UNCHANGED <<result, outcome>>
    /\ UNCHANGED <<fs, fs0, oracle, openable, args, all_purges, total_size,
                   total_count, cursor, freed, errors, log, answer, finished,
                   exit_code, stack, total, ret>>

\* line 166: a worker picks up the task of repos[i]
TaskStart(i) ==
    /\ pc = "scan"
    /\ tasks[i] = "queued"
    /\ tasks' = [tasks EXCEPT ![i] = "running"]
    /\ UNCHANGED <<fs, fs0, oracle, openable, args, pc, repos, found, all_purges,
                   total_size, total_count, cursor, freed, errors, log, answer,
                   finished, result, outcome, exit_code, stack, total, ret>>

\* line 166: find_purgeable(r) returns
TaskFinish(i) ==
    /\ pc = "scan"
    /\ tasks[i] = "running"
    /\ found' = [found EXCEPT ![i] = find_purgeable(fs, oracle, openable, repos[i])]
    /\ tasks' = [tasks EXCEPT ![i] = "done"]
    /\ finished' = Append(finished, i)
    /\ UNCHANGED <<fs, fs0, oracle, openable, args, pc, repos, all_purges,
                   total_size, total_count, cursor, freed, errors, log, answer,
                   result, outcome, exit_code, stack, total, ret>>

\* lines 164-173
Collect ==
    /\ pc = "scan"
    /\ scan_joined(tasks)
    /\ all_purges' = collect(repos, found, 1)
    /\ IF all_purges' = <<>>
       THEN Return("Ok", "nothing to purge")
       ELSE pc' = "report" /\ UNCHANGED <<result, outcome>>
    /\ UNCHANGED <<fs, fs0, oracle, openable, args, repos, tasks, found, total_size,
                   total_count, cursor, freed, errors, log, answer, finished,
                   exit_code, stack, total, ret>>

\* lines 175-198
Report ==
    /\ pc = "report"
    /\ total_size' = report_size(all_purges)
    /\ total_count' = report_count(all_purges)
    /\ IF stops_for_dry_run(args) THEN Return("Ok", "dry run")
       ELSE /\ pc' = IF asks(args) THEN "prompt" ELSE "purge"
            /\ UNCHANGED <<result, outcome>>
    /\ UNCHANGED <<fs, fs0, oracle, openable, args, repos, tasks, found, all_purges,
                   cursor, freed, errors, log, answer, finished, exit_code, stack,
                   total, ret>>

\* lines 199-209
Prompt ==
    /\ pc = "prompt"
    /\ \E line \in Inputs \cup {ReadError} :
         /\ answer' = line
         /\ IF line = ReadError THEN Return("Err", "failed to read input")
            ELSE IF ~is_yes(line) THEN Return("Ok", "aborted")
            ELSE pc' = "purge" /\ UNCHANGED <<result, outcome>>
    /\ UNCHANGED <<fs, fs0, oracle, openable, args, repos, tasks, found, all_purges,
                   total_size, total_count, cursor, freed, errors, log, finished,
                   exit_code, stack, total, ret>>

\* lines 213-222: one remove_dir_all, succeeding or failing
Remove ==
    /\ pc = "purge"
    /\ cursor[1] <= Len(all_purges)
    /\ LET p == all_purges[cursor[1]].purges[cursor[2]]
       IN  \E ok \in BOOLEAN :
             /\ ok => fs[p.path].kind # "none"
             /\ IF ok
                THEN /\ fs' = remove_dir_all(fs, p.path)
                     /\ freed' = freed + p.size
                     /\ UNCHANGED errors
                ELSE /\ fs' \in {fs, remove_partly(fs, p.path)}
                     /\ errors' = errors + 1
                     /\ UNCHANGED freed
             /\ log' = Append(log, [path |-> p.path, ok |-> ok])
             /\ cursor' = next_cursor(all_purges, cursor, ok)
    /\ UNCHANGED <<fs0, oracle, openable, args, pc, repos, tasks, found, all_purges,
                   total_size, total_count, answer, finished, result, outcome,
                   exit_code, stack, total, ret>>

\* lines 225-229
Finish ==
    /\ pc = "purge"
    /\ cursor[1] > Len(all_purges)
    /\ IF reports_failure(errors) THEN Return("Err", "failed to remove")
       ELSE Return("Ok", "freed")
    /\ UNCHANGED <<fs, fs0, oracle, openable, args, repos, tasks, found, all_purges,
                   total_size, total_count, cursor, freed, errors, log, answer,
                   finished, exit_code, stack, total, ret>>

\* lines 232-238
Main ==
    /\ pc = "main"
    /\ exit_code' = exit_status(result)
    /\ pc' = "exited"
    /\ UNCHANGED <<fs, fs0, oracle, openable, args, repos, tasks, found, all_purges,
                   total_size, total_count, cursor, freed, errors, log, answer,
                   finished, result, outcome, stack, total, ret>>

\* the variables of run, before run starts
RunIdle ==
    /\ repos = <<>>
    /\ tasks = <<>>
    /\ found = <<>>
    /\ all_purges = <<>>
    /\ total_size = 0
    /\ total_count = 0
    /\ cursor = <<1, 1>>
    /\ freed = 0
    /\ errors = 0
    /\ log = <<>>
    /\ answer = NoAnswer
    /\ finished = <<>>
    /\ result = "none"
    /\ outcome = "none"
    /\ exit_code = -1

FnIdle ==
    /\ stack = <<>>
    /\ total = 0
    /\ ret = <<>>

RealDirs(f) == {n \in Nodes0 : f[n].kind = "dir"}

Init ==
    /\ Tree("run")
    /\ fs0 = fs
    /\ oracle \in Oracles(fs, {r \in RealDirs(fs) : has_marker(fs, r)})
    /\ openable = RealDirs(fs)
    /\ args \in [depth : 0..MaxDepthArg, dry_run : BOOLEAN, yes : BOOLEAN]
    /\ pc = "canonicalize"
    /\ RunIdle
    /\ FnIdle

Next ==
    \/ Canonicalize
    \/ FindRepos
    \/ \E i \in DOMAIN tasks : TaskStart(i)
    \/ \E i \in DOMAIN tasks : TaskFinish(i)
    \/ Collect
    \/ Report
    \/ Prompt
    \/ Remove
    \/ Finish
    \/ Main

Spec == Init /\ [][Next]_vars

-----------------------------------------------------------------------------
(* The functions applied on their own *)

NoArgs == [depth |-> 0, dry_run |-> FALSE, yes |-> FALSE]

\* dir_size(Root), one iteration of its loop at a time
InitSize ==
    /\ Tree("size")
    /\ fs0 = fs
    /\ oracle = <<>>
    /\ openable = {}
    /\ args = NoArgs
    /\ pc = "dir_size"
    /\ RunIdle
    /\ stack = <<Root>>
    /\ total = 0
    /\ ret = 0

\* lines 80-92
SizeIterate ==
    /\ pc = "dir_size"
    /\ stack # <<>>
    /\ LET st == size_step(fs, [stack |-> stack, total |-> total])
       IN  stack' = st.stack /\ total' = st.total
    /\ UNCHANGED <<fs, fs0, oracle, openable, args, pc, repos, tasks, found,
                   all_purges, total_size, total_count, cursor, freed, errors, log,
                   answer, finished, result, outcome, exit_code, ret>>

\* line 93
SizeReturn ==
    /\ pc = "dir_size"
    /\ stack = <<>>
    /\ ret' = total
    /\ pc' = "returned"
    /\ UNCHANGED <<fs, fs0, oracle, openable, args, repos, tasks, found,
                   all_purges, total_size, total_count, cursor, freed, errors, log,
                   answer, finished, result, outcome, exit_code, stack, total>>

NextSize == SizeIterate \/ SizeReturn

\* the loop is the only thread of its call: it runs whenever it can
SpecSize == InitSize /\ [][NextSize]_vars /\ WF_vars(NextSize)

\* find_repos(Root, depth)
InitDiscover ==
    /\ Tree("discover")
    /\ fs0 = fs
    /\ oracle = <<>>
    /\ openable = {}
    /\ args \in [depth : 0..MaxDepthArg, dry_run : {FALSE}, yes : {FALSE}]
    /\ pc = "find_repos"
    /\ RunIdle
    /\ FnIdle

\* lines 51-56
CallFindRepos ==
    /\ pc = "find_repos"
    /\ ret' = find_repos(fs, Root, args.depth)
    /\ pc' = "returned"
    /\ UNCHANGED <<fs, fs0, oracle, openable, args, repos, tasks, found,
                   all_purges, total_size, total_count, cursor, freed, errors, log,
                   answer, finished, result, outcome, exit_code, stack, total>>

NextDiscover == CallFindRepos

SpecDiscover == InitDiscover /\ [][NextDiscover]_vars

\* find_purgeable(Root)
InitScan ==
    /\ Tree("scan")
    /\ fs0 = fs
    /\ oracle \in Oracles(fs, {Root})
    /\ openable \in {{Root}, {}}
    /\ args = NoArgs
    /\ pc = "find_purgeable"
    /\ RunIdle
    /\ stack = <<>>
    /\ total = 0
    /\ ret = [out |-> <<>>, visited |-> {}]

\* lines 96-104
CallFindPurgeable ==
    /\ pc = "find_purgeable"
    /\ ret' = scan_walk(fs, oracle, openable, Root)
    /\ pc' = "returned"
    /\ UNCHANGED <<fs, fs0, oracle, openable, args, repos, tasks, found,
                   all_purges, total_size, total_count, cursor, freed, errors, log,
                   answer, finished, result, outcome, exit_code, stack, total>>

NextScan == CallFindPurgeable

SpecScan == InitScan /\ [][NextScan]_vars

-----------------------------------------------------------------------------
(* Properties *)

RECURSIVE SumLen(_, _)
SumLen(f, S) ==
    IF S = {} THEN 0
    ELSE LET n == CHOOSE x \in S : TRUE IN f[n].len + SumLen(f, S \ {n})

Range(s) == {s[i] : i \in DOMAIN s}
NoDuplicates(s) == \A i, j \in DOMAIN s : i # j => s[i] # s[j]

\* the entries strictly between a and n
Between(a, n) == {x \in Ancestors(n) : IsBelow(x, a)}

\* the regular files under path that are reached through readable directories
\* that are not symbolic links, and whose metadata can be read
CountedFiles(f, path) ==
    {n \in Nodes :
        /\ IsBelow(n, path)
        /\ f[n].kind = "file"
        /\ f[n].meta
        /\ f[path].readable
        /\ \A a \in Between(path, n) : f[a].kind = "dir" /\ f[a].readable}

\* C8: dir_size terminates on every tree, and what it returns is the sum of the
\* lengths of the regular files of the subtree, where symbolic links contribute
\* nothing and are not followed, and unreadable directories and files whose
\* metadata cannot be read contribute 0.
C8_DirSizeIsSumOfFiles ==
    /\ [](pc = "returned" => ret = SumLen(fs, CountedFiles(fs, Root)))
    /\ <>(pc = "returned")

\* dir_size has returned the length of a file two directories down, having passed
\* over a file behind a symbolic link to a directory and a file in an unreadable
\* directory
C8_Witness ==
    /\ pc = "returned"
    /\ ret > 0
    /\ \E n \in CountedFiles(fs, Root) : Level(n) >= 2
    /\ \E n \in Nodes : fs[n].kind = "file" /\ fs[Parent(n)].kind = "symlink_dir"
    /\ \E n \in Nodes : fs[n].kind = "file" /\ fs[Parent(n)] = LockedDir(N_b)

\* the directories that hold the marker, at most max_depth down, below readable
\* directories that are not symbolic links and hold no marker themselves
ExpectedRepos(f, max_depth) ==
    {d \in Nodes0 :
        /\ f[d].kind = "dir"
        /\ exists(f, d, N_git)
        /\ Level(d) <= max_depth
        /\ \A a \in Ancestors(d) :
              f[a].kind = "dir" /\ f[a].readable /\ ~exists(f, a, N_git)}

\* C4: find_repos returns, in ascending path order and without duplicates, exactly
\* the directories that hold the marker, lie at most max_depth below the root and
\* are reached through readable non-symlink ancestors holding no marker; so no
\* result is an ancestor of another and none lies deeper than max_depth.
C4_FindReposExact ==
    pc = "returned" =>
        /\ Range(ret) = ExpectedRepos(fs, args.depth)
        /\ NoDuplicates(ret)
        /\ \A i, j \in DOMAIN ret : i < j => path_lt(fs, ret[i], ret[j])
        /\ \A i, j \in DOMAIN ret : ~IsBelow(ret[i], ret[j])
        /\ \A i \in DOMAIN ret : Level(ret[i]) <= args.depth

\* find_repos has returned two repositories in an order that is not the order the
\* walk met them in, and has left out a marked directory inside one of them
C4_Witness ==
    /\ pc = "returned"
    /\ Len(ret) = 2
    /\ ret # collect_repos(fs, Root, args.depth, 0, <<>>)
    /\ \E d \in Nodes : /\ fs[d].kind = "dir"
                        /\ exists(fs, d, N_git)
                        /\ \E i \in DOMAIN ret : IsBelow(d, ret[i])

\* the verdict of the ignore rules on the path of n below repo, with a trailing
\* separator
IgnoredExactly(f, o, repo, n) ==
    is_path_ignored(o, repo, exact_string(strip_prefix(f, n, repo))) = "Ok(true)"

IsHiddenName(name) == Len(name) > 0 /\ name[1] = "."

\* C1: every candidate is a directory, not a symbolic link, whose name is a
\* target name and whose path below the repository, with a trailing separator,
\* the ignore rules call ignored.
C1_CandidatesAreIgnoredTargets ==
    pc = "returned" =>
        \A i \in DOMAIN ret.out :
            LET n == ret.out[i].path
            IN  /\ fs[n].kind = "dir"
                /\ fs[n].name \in TARGETS
                /\ IgnoredExactly(fs, oracle, Root, n)

\* the target-named directories the ignore rules call ignored that lie below
\* readable ancestors that are neither symbolic links, nor hidden, nor target-named
ExpectedPurges(f, o, repo) ==
    {n \in Nodes :
        /\ IsBelow(n, repo)
        /\ f[n].kind = "dir"
        /\ f[n].name \in TARGETS
        /\ IgnoredExactly(f, o, repo, n)
        /\ f[repo].readable
        /\ \A a \in Between(repo, n) :
              /\ f[a].kind = "dir"
              /\ f[a].readable
              /\ ~IsHiddenName(f[a].name)
              /\ f[a].name \notin TARGETS}

\* C3: the scan of a repository yields exactly one candidate for each ignored
\* target-named directory below readable, non-symlink, non-hidden, non-target
\* ancestors, and no other candidate.
C3_OneCandidatePerIgnoredTarget ==
    (pc = "returned" /\ Root \in openable) =>
        /\ {ret.out[i].path : i \in DOMAIN ret.out} = ExpectedPurges(fs, oracle, Root)
        /\ NoDuplicates(ret.out)

\* C9: no candidate lies inside another, and none lies inside a target-named
\* directory, ignored or not.
C9_CandidatesAreDisjoint ==
    pc = "returned" =>
        /\ \A i, j \in DOMAIN ret.out : ~IsBelow(ret.out[i].path, ret.out[j].path)
        /\ \A i \in DOMAIN ret.out :
              \A a \in Between(Root, ret.out[i].path) : fs[a].name \notin TARGETS

\* the scan has returned, and left out, a target-named directory that the ignore
\* rules call ignored and that lies inside a target-named directory they do not
C9_Witness ==
    /\ pc = "returned"
    /\ Root \in openable
    /\ \E n \in Nodes :
          /\ fs[n].kind = "dir"
          /\ fs[n].name \in TARGETS
          /\ IgnoredExactly(fs, oracle, Root, n)
          /\ fs[Parent(n)].kind = "dir"
          /\ fs[Parent(n)].name \in TARGETS
          /\ ~IgnoredExactly(fs, oracle, Root, Parent(n))
          /\ \A i \in DOMAIN ret.out : ret.out[i].path # n
    /\ ret.out # <<>>

\* C10: nothing the walk was called on, and no candidate, lies inside a hidden
\* directory that is not target-named.
C10_HiddenNeverDescended ==
    pc = "returned" =>
        \A n \in ret.visited \cup {ret.out[i].path : i \in DOMAIN ret.out} :
            \A a \in (Between(Root, n) \cup ({n} \cap ret.visited)) \ {Root} :
                ~(IsHiddenName(fs[a].name) /\ fs[a].name \notin TARGETS)


\* the user was shown the prompt and typed a line that means yes
AnsweredYes == answer \notin {NoAnswer, ReadError} /\ is_yes(answer)

\* the user was shown the prompt and typed a line that does not mean yes
Declined == answer \notin {NoAnswer, ReadError} /\ ~is_yes(answer)

Confirmed == ~args.dry_run /\ (args.yes \/ AnsweredYes)

\* C2: the deletion loop is reached only without --dry-run and with --yes or a yes
\* at the prompt; in every other run nothing is deleted and the filesystem stays
\* as it was.
C2_DeletesOnlyWhenConfirmed ==
    /\ (pc = "purge" \/ log # <<>>) => Confirmed
    /\ ~Confirmed => (fs = fs0 /\ log = <<>>)

\* a run with --dry-run and --yes together has reported candidates and exited
C2_Witness ==
    /\ pc = "exited"
    /\ args.dry_run
    /\ args.yes
    /\ all_purges # <<>>
    /\ total_count > 0
    /\ fs = fs0

\* the candidates of every scan result, in the order the deletion loop takes them
RECURSIVE Candidates(_)
Candidates(ap) == IF ap = <<>> THEN <<>> ELSE ap[1].purges \o Candidates(Tail(ap))

RECURSIVE SumSizeWhere(_, _, _)
SumSizeWhere(cs, lg, k) ==
    IF k > Len(cs) THEN 0
    ELSE (IF lg[k].ok THEN cs[k].size ELSE 0) + SumSizeWhere(cs, lg, k + 1)

ExecutorFinished ==
    \/ pc = "purge" /\ cursor[1] > Len(all_purges)
    \/ outcome \in {"freed", "failed to remove"}

\* C5: when the deletion loop ends it has called remove_dir_all once on every
\* candidate, whatever failed before; freed is the sum of the recorded sizes of
\* the candidates whose removal succeeded, and errors counts the others.
C5_ExecutorAttemptsAll ==
    ExecutorFinished =>
        LET cs == Candidates(all_purges)
        IN  /\ Len(log) = Len(cs)
            /\ \A k \in DOMAIN log : log[k].path = cs[k].path
            /\ \A k \in DOMAIN log : log[k].ok <=> fs[log[k].path].kind = "none"
            /\ freed = SumSizeWhere(cs, log, 1)
            /\ errors = Cardinality({k \in DOMAIN log : ~log[k].ok})

\* the loop has ended after a failed removal followed by a successful one of a
\* directory that held something
C5_Witness ==
    /\ ExecutorFinished
    /\ Len(log) >= 2
    /\ ~log[1].ok
    /\ log[2].ok
    /\ freed > 0
    /\ errors = 1

\* C6: the exit status is non-zero when the root cannot be accessed, when no
\* repository is found and when a removal failed; it is zero after a run that
\* removed everything or found nothing to remove, after the user declined, and
\* after a dry run.
C6_ExitStatus ==
    pc = "exited" =>
        /\ outcome = "cannot access" => exit_code # 0
        /\ (outcome # "cannot access" /\ repos = <<>>) => exit_code # 0
        /\ errors > 0 => exit_code # 0
        /\ (log # <<>> /\ errors = 0) => exit_code = 0
        /\ (repos # <<>> /\ all_purges = <<>>) => exit_code = 0
        /\ Declined => exit_code = 0
        /\ (args.dry_run /\ repos # <<>>) => exit_code = 0

\* a run has exited 1 after one removal failed and another succeeded
C6_Witness ==
    /\ pc = "exited"
    /\ exit_code = 1
    /\ errors = 1
    /\ freed > 0

ScansOver ==
    \/ pc \in {"report", "prompt", "purge"}
    \/ pc \in {"main", "exited"} /\ outcome \notin {"cannot access", "no repos"}

\* C7: whatever the order the scan tasks ran in, the collected list holds, for
\* every repository whose scan finds a candidate, exactly one entry, with the
\* candidates a scan of that repository alone finds, and no entry for any other
\* repository; and reporting and deletion start only when every task is done.
C7_AggregateIsPerRepoScan ==
    /\ (pc \in {"report", "prompt", "purge"} \/ total_count > 0 \/ log # <<>>) =>
          \A i \in DOMAIN tasks : tasks[i] = "done"
    /\ ScansOver =>
          /\ \A k \in DOMAIN all_purges : all_purges[k].repo \in Range(repos)
          /\ \A i \in DOMAIN repos :
                LET alone == find_purgeable(fs0, oracle, openable, repos[i])
                    at == {k \in DOMAIN all_purges : all_purges[k].repo = repos[i]}
                IN  IF alone = <<>> THEN at = {}
                    ELSE /\ Cardinality(at) = 1
                         /\ \A k \in at : all_purges[k].purges = alone

\* two scan tasks have completed in the opposite order of their repositories, both
\* running at once, and the one that found nothing has been dropped
C7_Witness ==
    /\ pc = "report"
    /\ Len(repos) = 2
    /\ finished = <<2, 1>>
    /\ Len(all_purges) = 1
    /\ all_purges[1].repo = repos[2]

====
